---- MODULE Spec2Model ----
(***************************************************************************)
(* Model of the App Engine static website handler (package app):           *)
(* StaticWebsiteHandler and the HandlerContext methods it calls, the       *)
(* process-wide website-config cache, the conditional evaluator and the    *)
(* clean-URL canonicalization.  Strings are TLA+ strings; the Go string    *)
(* functions the code uses are defined on them character by character.     *)
(***************************************************************************)
EXTENDS Integers, Sequences, FiniteSets, TLC

VARIABLES
    websites,   \* var websites: the process-wide cache, bucket -> WebsiteConfiguration
    writer,     \* requests inside the map assignment websites[bucket] = ..., each with
                \* the keys the map held when its assignment began
    crashed,    \* the Go runtime has terminated the process ("concurrent map writes")
    firebase,   \* var firebase: bucket -> FirebaseConfiguration, loaded by init()
    origin,     \* the object store's websiteConfig document of every bucket
    pc,         \* position of every request in StaticWebsiteHandler
    req,        \* r *http.Request: Method, URL.Host, URL.Path
    ctx,        \* HandlerContext: object, website
    res,        \* the *http.Response the resolver holds / has returned
    w,          \* w.Header(): the response headers written so far
    result,     \* the HttpResult returned, and what was written to the body
    calls,      \* the origin calls a request has issued, in order
    call        \* argument and result of a pure function under test

vars == <<websites, writer, crashed, firebase, origin, pc, req, ctx,
          res, w, result, calls, call>>

(***************************************************************************)
(* Go string functions used by the handler.                                *)
(***************************************************************************)

\* strings.HasSuffix(s, suffix)
HasSuffix(s, suffix) ==
    /\ Len(s) >= Len(suffix)
    /\ SubSeq(s, Len(s) - Len(suffix) + 1, Len(s)) = suffix

\* strings.TrimSuffix(s, suffix): s without ONE trailing suffix, if present
TrimSuffix(s, suffix) ==
    IF HasSuffix(s, suffix) THEN SubSeq(s, 1, Len(s) - Len(suffix)) ELSE s

\* strings.TrimRight(s, "/"): s without ALL trailing slashes
RECURSIVE TrimRight(_)
TrimRight(s) ==
    IF HasSuffix(s, "/") THEN TrimRight(SubSeq(s, 1, Len(s) - 1)) ELSE s

\* strings.Contains(s, substr)
Contains(s, substr) ==
    \E i \in 1..(Len(s) - Len(substr) + 1) :
        SubSeq(s, i, i + Len(substr) - 1) = substr

\* rewrite[0] == '/' (only evaluated when len(rewrite) > 1)
FirstIsSlash(s) == SubSeq(s, 1, 1) = "/"

(***************************************************************************)
(* Status codes of net/http.                                               *)
(***************************************************************************)
StatusOK == 200
StatusMovedPermanently == 301
StatusNotModified == 304
StatusNotFound == 404
StatusMethodNotAllowed == 405
StatusPreconditionFailed == 412
StatusInternalServerError == 500

(***************************************************************************)
(* http.Header: a map from header name to the list of its values.          *)
(***************************************************************************)

\* h.Get(key): the first value of the header, "" when there is none
Get(h, key) == IF key \in DOMAIN h /\ Len(h[key]) > 0 THEN h[key][1] ELSE ""

\* h[key]: the value list, nil (the empty list) when the key is absent
Values(h, key) == IF key \in DOMAIN h THEN h[key] ELSE <<>>

\* h.Set(key, value) and h[key] = values
SetValues(h, key, values) ==
    [k \in DOMAIN h \cup {key} |-> IF k = key THEN values ELSE h[k]]

Set(h, key, value) == SetValues(h, key, <<value>>)

\* a header is sent on the wire when it has at least one value
Carries(h, key) == key \in DOMAIN h /\ Len(h[key]) > 0

EmptyHeader == [k \in {} |-> <<>>]

(***************************************************************************)
(* http.ParseTime on the HTTP dates the model uses; every other string     *)
(* (the empty string of an absent header included) fails to parse.         *)
(***************************************************************************)
Date1 == "Sun, 01 Jan 2023 00:00:00 GMT"
Date2 == "Mon, 02 Jan 2023 00:00:00 GMT"
Date3 == "Tue, 03 Jan 2023 00:00:00 GMT"

ParseTime(s) ==
    CASE s = Date1 -> [err |-> FALSE, t |-> 1]
      [] s = Date2 -> [err |-> FALSE, t |-> 2]
      [] s = Date3 -> [err |-> FALSE, t |-> 3]
      [] OTHER     -> [err |-> TRUE,  t |-> 0]

\* t.After(u)
After(t, u) == t > u

(***************************************************************************)
(* FirebaseConfiguration: the two flags the handler reads directly.        *)
(* TrailingSlash is a *bool: nil, false or true.                           *)
(***************************************************************************)
TrailingSlashValues == {"nil", "false", "true"}

(***************************************************************************)
(* func (ctx *HandlerContext) getCleanURL() string                         *)
(***************************************************************************)
getCleanURL(path, website, fb) ==
    LET p1 == IF fb.CleanUrls
              THEN TrimSuffix(TrimSuffix(path, website.MainPageSuffix), ".html")
              ELSE path
        p2 == IF fb.TrailingSlash # "nil"
              THEN IF fb.TrailingSlash = "true"
                   THEN TrimRight(p1) \o "/"
                   ELSE TrimRight(p1)
              ELSE p1
    IN  IF p2 # path THEN p2 ELSE ""

(***************************************************************************)
(* func checkConditions(r, etag, lastModified, mutable) int                *)
(***************************************************************************)
IfMatchMatches(matchers, etag, mutable) ==
    \E i \in 1..Len(matchers) :
        matchers[i] = "*" \/ (Contains(matchers[i], etag) /\ ~mutable)

IfNoneMatchMatches(matchers, etag) ==
    \E i \in 1..Len(matchers) :
        matchers[i] = "*" \/ Contains(matchers[i], etag)

\* faulty variant: the If-Unmodified-Since test is not in an else branch
checkPreconditions_noElse(header, etag, modified, mutable) ==
    LET since == ParseTime(Get(header, "If-Unmodified-Since"))
    IN  IF "If-Match" \in DOMAIN header
           /\ ~IfMatchMatches(header["If-Match"], etag, mutable)
        THEN StatusPreconditionFailed
        ELSE IF ~since.err /\ (After(modified, since.t) \/ mutable)
        THEN StatusPreconditionFailed ELSE 0

checkPreconditions(header, etag, modified, mutable) ==
    IF "If-Match" \in DOMAIN header
    THEN IF ~IfMatchMatches(header["If-Match"], etag, mutable)
         THEN StatusPreconditionFailed ELSE 0
    ELSE LET since == ParseTime(Get(header, "If-Unmodified-Since"))
         IN  IF ~since.err /\ (After(modified, since.t) \/ mutable)
             THEN StatusPreconditionFailed ELSE 0

checkCacheValidators(header, etag, modified) ==
    IF "If-None-Match" \in DOMAIN header
    THEN IF IfNoneMatchMatches(header["If-None-Match"], etag)
         THEN StatusNotModified ELSE 0
    ELSE LET since == ParseTime(Get(header, "If-Modified-Since"))
         IN  IF ~since.err /\ ~After(modified, since.t)
             THEN StatusNotModified ELSE 0

checkConditions(header, etag, lastModified, mutable) ==
    LET modified == ParseTime(lastModified)
    IN  IF etag = "" \/ SubSeq(etag, 1, 1) # "\"" \/ modified.err
        THEN StatusInternalServerError
        ELSE IF checkPreconditions(header, etag, modified.t, mutable) # 0
             THEN checkPreconditions(header, etag, modified.t, mutable)
             ELSE checkCacheValidators(header, etag, modified.t)

(***************************************************************************)
(* The rules engine of a FirebaseConfiguration: processRedirects,          *)
(* processRewrites and processHeaders.  A rule names a source pattern;     *)
(* the pattern "**" matches every path, any other pattern matches the      *)
(* path equal to it.                                                       *)
(***************************************************************************)
Matches(source, path) == source = "**" \/ source = path

\* (status, location) of the first matching redirect rule, (0, "") if none
processRedirects(fb, path) ==
    IF \E i \in 1..Len(fb.Redirects) : Matches(fb.Redirects[i].Source, path)
    THEN LET i == CHOOSE j \in 1..Len(fb.Redirects) :
                     /\ Matches(fb.Redirects[j].Source, path)
                     /\ \A k \in 1..(j - 1) : ~Matches(fb.Redirects[k].Source, path)
         IN  [Code |-> fb.Redirects[i].Type, Location |-> fb.Redirects[i].Destination]
    ELSE [Code |-> 0, Location |-> ""]

\* destination of the first matching rewrite rule, "" if none
processRewrites(fb, path) ==
    IF \E i \in 1..Len(fb.Rewrites) : Matches(fb.Rewrites[i].Source, path)
    THEN LET i == CHOOSE j \in 1..Len(fb.Rewrites) :
                     /\ Matches(fb.Rewrites[j].Source, path)
                     /\ \A k \in 1..(j - 1) : ~Matches(fb.Rewrites[k].Source, path)
         IN  fb.Rewrites[i].Destination
    ELSE ""

\* every matching header rule sets its header on h, in rule order
RECURSIVE applyHeaderRules(_, _, _)
applyHeaderRules(rules, path, h) ==
    IF rules = <<>> THEN h
    ELSE applyHeaderRules(Tail(rules), path,
            IF Matches(Head(rules).Source, path)
            THEN Set(h, Head(rules).Key, Head(rules).Value)
            ELSE h)

processHeaders(fb, path, h) == applyHeaderRules(fb.Headers, path, h)

(***************************************************************************)
(* func setHeaders(h http.Header): the security-header baseline            *)
(***************************************************************************)
\* faulty variant: one header of the baseline is forgotten
setHeaders_incomplete(h) ==
    LET h1 == Set(h,  "Referrer-Policy", "strict-origin-when-cross-origin")
        h2 == Set(h1, "Strict-Transport-Security", "max-age=86400")
        h3 == Set(h2, "X-Content-Type-Options", "nosniff")
        h5 == Set(h3, "X-Frame-Options", "SAMEORIGIN")
    IN  Set(h5, "X-XSS-Protection", "1; mode=block")

setHeaders(h) ==
    LET h1 == Set(h,  "Referrer-Policy", "strict-origin-when-cross-origin")
        h2 == Set(h1, "Strict-Transport-Security", "max-age=86400")
        h3 == Set(h2, "X-Content-Type-Options", "nosniff")
        h4 == Set(h3, "X-Download-Options", "noopen")
        h5 == Set(h4, "X-Frame-Options", "SAMEORIGIN")
    IN  Set(h5, "X-XSS-Protection", "1; mode=block")

\* func (ctx *HandlerContext) setHeaders()
ctxSetHeaders(fb, path, h) == processHeaders(fb, path, setHeaders(h))

(***************************************************************************)
(* Bounds and input sets.                                                  *)
(***************************************************************************)
NumReqs == 2                     \* requests the process serves
Reqs == 1..NumReqs

Buckets == {"b1", "b2"}

Methods == {"GET", "HEAD", "POST"}

\* request paths (r.URL.Path)
Paths == {"", "/", "//", "/a", "/a/", "/a.html", "/404.html", "/old", "/a b"}

\* the time.Now() of the request, formatted with http.TimeFormat
Now == Date3

ZeroWebsite == [MainPageSuffix |-> "", NotFoundPage |-> ""]

\* websiteConfig documents: an element missing from the XML is <<>>
MainPageSuffixes == {<<>>, <<"index.html">>, <<"home.html">>}
NotFoundPages == {<<>>, <<"404.html">>, <<"a b">>}
WebsiteDocs == [MainPageSuffix : MainPageSuffixes, NotFoundPage : NotFoundPages]

\* the rules of a firebase.json: none; a redirect, a catch-all rewrite and a
\* custom header; a rewrite to a relative destination and a header rule
\* that names a header of the security baseline
DefaultDoc == [MainPageSuffix |-> <<"index.html">>, NotFoundPage |-> <<"404.html">>]

RuleSets ==
    {[Redirects |-> <<>>, Rewrites |-> <<>>, Headers |-> <<>>],
     [Redirects |-> <<[Source |-> "/old", Type |-> 301, Destination |-> "/new"]>>,
      Rewrites  |-> <<[Source |-> "**", Destination |-> "/app.html"]>>,
      Headers   |-> <<[Source |-> "**", Key |-> "X-Custom", Value |-> "1"]>>],
     [Redirects |-> <<>>,
      Rewrites  |-> <<[Source |-> "**", Destination |-> "app.html"]>>,
      Headers   |-> <<[Source |-> "**", Key |-> "X-Frame-Options", Value |-> "DENY"]>>]}

FirebaseConfiguration(cleanUrls, trailingSlash, rules) ==
    [CleanUrls |-> cleanUrls, TrailingSlash |-> trailingSlash,
     Redirects |-> rules.Redirects, Rewrites |-> rules.Rewrites,
     Headers |-> rules.Headers]

FirebaseConfigurations ==
    {FirebaseConfiguration(c, t, rules) :
        c \in BOOLEAN, t \in TrailingSlashValues, rules \in RuleSets}

\* firebase[bucket] of a bucket that firebase.json does not mention
ZeroFirebase ==
    [CleanUrls |-> FALSE, TrailingSlash |-> "nil", Redirects |-> <<>>,
     Rewrites |-> <<>>, Headers |-> <<>>]

(***************************************************************************)
(* The origin (object store).  Its answers are drawn when a call is made.  *)
(***************************************************************************)
Etag == "\"abc\""

StatusText(code) ==
    CASE code = StatusOK -> "200 OK"
      [] code = 403 -> "403 Forbidden"
      [] code = StatusNotFound -> "404 Not Found"
      [] code = 503 -> "503 Service Unavailable"
      [] OTHER -> ""

\* the statuses the object store answers with: found, forbidden, not found,
\* unavailable
OriginStatuses == {StatusOK, 403, StatusNotFound, 503}

\* validators of a 200: well-formed, malformed ETag, missing Last-Modified
Validators ==
    {[Etag |-> Etag, LastModified |-> Date2],
     [Etag |-> "abc", LastModified |-> Date2],
     [Etag |-> Etag, LastModified |-> ""]}

CacheControls == {<<>>, <<"max-age=60">>}
StoredEncodings == {"identity", "gzip"}

\* x-goog-stored-content-length: "0" is a directory placeholder
StoredLengths == {"0", "5"}

OkHeader(v, cc, enc, len) ==
    [k \in {"Etag", "Last-Modified", "Cache-Control", "Content-Type",
            "x-goog-stored-content-encoding", "x-goog-stored-content-length"} |->
        CASE k = "Etag" -> IF v.Etag = "" THEN <<>> ELSE <<v.Etag>>
          [] k = "Last-Modified" -> IF v.LastModified = "" THEN <<>> ELSE <<v.LastModified>>
          [] k = "Cache-Control" -> cc
          [] k = "Content-Type" -> <<"text/html">>
          [] k = "x-goog-stored-content-encoding" -> <<enc>>
          [] OTHER -> <<len>>]

Response(code, header) ==
    [Err |-> FALSE, StatusCode |-> code, Status |-> StatusText(code), Header |-> header]

TransportError == [Err |-> TRUE, StatusCode |-> 0, Status |-> "", Header |-> EmptyHeader]

\* &http.Response{StatusCode: code}
BareResponse(code) ==
    [Err |-> FALSE, StatusCode |-> code, Status |-> "", Header |-> EmptyHeader]

NoResponse == BareResponse(0)

\* what ctx.gcs.Head can return
HeadResponses ==
    {TransportError}
    \cup {Response(code, EmptyHeader) : code \in OriginStatuses \ {StatusOK}}
    \cup {Response(StatusOK, OkHeader(v, cc, enc, len)) :
              v \in Validators, cc \in CacheControls, enc \in StoredEncodings,
              len \in StoredLengths}

\* the answers among heads that the origin gives for object: only an object
\* whose name ends in "/" is a directory placeholder
HeadsOf(heads, object) ==
    {x \in heads : Get(x.Header, "x-goog-stored-content-length") = "0"
                      => HasSuffix(object, "/")}

\* what ctx.gcs.Get(bucket + object) can return
GetResponses ==
    {TransportError}
    \cup {Response(code, EmptyHeader) : code \in OriginStatuses \ {StatusOK}}
    \cup {Response(StatusOK, [k \in {"Content-Type"} |-> <<"text/html">>])}

\* xml.Decode(&ctx.website): an element of the document overwrites its field
Decode(doc, website) ==
    [MainPageSuffix |-> IF doc.MainPageSuffix = <<>> THEN website.MainPageSuffix
                        ELSE doc.MainPageSuffix[1],
     NotFoundPage   |-> IF doc.NotFoundPage = <<>> THEN website.NotFoundPage
                        ELSE doc.NotFoundPage[1]]

(***************************************************************************)
(* r.URL.EscapedPath(): a space is the one character of the model's paths  *)
(* that needs escaping.                                                    *)
(***************************************************************************)
RECURSIVE EscapedPath(_)
EscapedPath(path) ==
    IF path = "" THEN ""
    ELSE (IF SubSeq(path, 1, 1) = " " THEN "%20" ELSE SubSeq(path, 1, 1))
         \o EscapedPath(SubSeq(path, 2, Len(path)))

\* the query strings of the requests (r.URL.RawQuery, already in encoded form)
Queries == {"", "q=1"}

\* func (ctx *HandlerContext) getQuery() string
getQuery(rawQuery) == IF rawQuery = "" THEN "" ELSE "?" \o rawQuery

(***************************************************************************)
(* Per-request state.                                                      *)
(***************************************************************************)
\* Warm records whether the cache held the bucket's entry when the request arrived
NoRequest == [Method |-> "", Host |-> "", Path |-> "", Warm |-> FALSE]
NoContext == [bucket |-> "", object |-> "", website |-> ZeroWebsite]
NoResult  == [Status |-> 0, Location |-> "", Message |-> "",
              WroteHeader |-> 0, Body |-> ""]

HttpResult(status, location, message) ==
    [Status |-> status, Location |-> location, Message |-> message,
     WroteHeader |-> 0, Body |-> ""]

\* ctx.firebase = firebase[bucket]
Firebase(r) == IF ctx[r].bucket \in DOMAIN firebase THEN firebase[ctx[r].bucket]
               ELSE ZeroFirebase

\* a call to the origin and the status code of its answer (0: no answer, a
\* transport error)
OriginCall(verb, object, code) == [Verb |-> verb, Object |-> object, Code |-> code]

(***************************************************************************)
(* func StaticWebsiteHandler(w, r) HttpResult, one action per step.        *)
(***************************************************************************)

\* the hosting runtime hands a request to the handler
Intake(r, methods, buckets, paths) ==
    /\ ~crashed
    /\ pc[r] = "idle"
    /\ \E m \in methods, b \in buckets, p \in paths :
          req' = [req EXCEPT ![r] = [Method |-> m, Host |-> b, Path |-> p,
                                     Warm |-> b \in DOMAIN websites]]
    /\ pc' = [pc EXCEPT ![r] = "checkMethod"]
    /\ UNCHANGED <<websites, writer, crashed, firebase, origin, ctx,
                   res, w, result, calls, call>>

\* faulty variant: the 405 is returned without the Allow header
CheckMethod_noAllow(r) ==
    /\ ~crashed
    /\ pc[r] = "checkMethod"
    /\ IF req[r].Method # "GET" /\ req[r].Method # "HEAD"
       THEN /\ result' = [result EXCEPT ![r] =
                              HttpResult(StatusMethodNotAllowed, "", "")]
            /\ pc' = [pc EXCEPT ![r] = "done"]
       ELSE /\ pc' = [pc EXCEPT ![r] = "makeContext"]
            /\ UNCHANGED result
    /\ UNCHANGED <<websites, writer, crashed, firebase, origin, req, ctx,
                   res, w, calls, call>>

\* func checkMethod(w, r) int, and the handler's return on a non-zero code
CheckMethod(r) ==
    /\ ~crashed
    /\ pc[r] = "checkMethod"
    /\ IF req[r].Method # "GET" /\ req[r].Method # "HEAD"
       THEN /\ w' = [w EXCEPT ![r] = Set(w[r], "Allow", "GET, HEAD")]
            /\ result' = [result EXCEPT ![r] =
                              HttpResult(StatusMethodNotAllowed, "", "")]
            /\ pc' = [pc EXCEPT ![r] = "done"]
       ELSE /\ pc' = [pc EXCEPT ![r] = "makeContext"]
            /\ UNCHANGED <<w, result>>
    /\ UNCHANGED <<websites, writer, crashed, firebase, origin, req, ctx, res, calls, call>>

\* websites[bucket]: the zero value when the bucket has no entry
Lookup(bucket) ==
    IF bucket \in DOMAIN websites THEN websites[bucket] ELSE ZeroWebsite

\* func makeContext(w, r) HandlerContext
makeContext(r, website) ==
    [bucket  |-> req[r].Host,
     object  |-> IF EscapedPath(req[r].Path) = "/" THEN "/index.html"
                 ELSE EscapedPath(req[r].Path),
     website |-> website]

MakeContext(r) ==
    /\ ~crashed
    /\ pc[r] = "makeContext"
    /\ DOMAIN writer = {}
    /\ ctx' = [ctx EXCEPT ![r] = makeContext(r, Lookup(req[r].Host))]
    /\ pc' = [pc EXCEPT ![r] = "getRedirect"]
    /\ UNCHANGED <<websites, writer, crashed, firebase, origin, req, res, w, result, calls, call>>

\* faulty variant: the redirect rule is looked at after the website config
\* of an uncached bucket was fetched
GetRedirect_afterInit(r) ==
    /\ ~crashed
    /\ pc[r] = "getRedirect"
    /\ LET rd == processRedirects(Firebase(r), req[r].Path)
       IN  IF rd.Code # 0
           THEN /\ \E rawQuery \in Queries :
                     result' = [result EXCEPT ![r] =
                        HttpResult(rd.Code, rd.Location \o getQuery(rawQuery), "")]
                /\ calls' = [calls EXCEPT ![r] =
                        IF ctx[r].bucket \in DOMAIN websites THEN @
                        ELSE Append(@, OriginCall("GET", "?websiteConfig", StatusOK))]
                /\ pc' = [pc EXCEPT ![r] = "done"]
           ELSE /\ pc' = [pc EXCEPT ![r] = "initWebsite"]
                /\ UNCHANGED <<result, calls>>
    /\ UNCHANGED <<websites, writer, crashed, firebase, origin, req, ctx, res, w, call>>

\* func (ctx *HandlerContext) getRedirect(), and the handler's return
GetRedirect(r) ==
    /\ ~crashed
    /\ pc[r] = "getRedirect"
    /\ LET rd == processRedirects(Firebase(r), req[r].Path)
       IN  IF rd.Code # 0
           THEN /\ \E rawQuery \in Queries :
                     result' = [result EXCEPT ![r] =
                        HttpResult(rd.Code, rd.Location \o getQuery(rawQuery), "")]
                /\ pc' = [pc EXCEPT ![r] = "done"]
           ELSE /\ pc' = [pc EXCEPT ![r] = "initWebsite"]
                /\ UNCHANGED result
    /\ UNCHANGED <<websites, writer, crashed, firebase, origin, req, ctx, res, w, calls, call>>

\* initWebsite: the cache lookup  if _, ok := websites[ctx.bucket]; ok
InitWebsite(r) ==
    /\ ~crashed
    /\ pc[r] = "initWebsite"
    /\ DOMAIN writer = {}
    /\ pc' = [pc EXCEPT ![r] = IF ctx[r].bucket \in DOMAIN websites
                                THEN "getCleanURL" ELSE "fetchWebsiteConfig"]
    /\ UNCHANGED <<websites, writer, crashed, firebase, origin, req, ctx, res, w, result, calls, call>>

\* the status code of the websiteConfig answer: a transport error, a
\* non-200, a 200 whose body does not decode, a 200 that decodes
FetchStatus(outcome) ==
    CASE outcome = "error" -> 0
      [] outcome = "status" -> 503
      [] OTHER -> StatusOK

\* faulty variant: a failed fetch leaves an entry for the bucket in the cache
FetchWebsiteConfig_cachesFailure(r, outcomes) ==
    /\ ~crashed
    /\ pc[r] = "fetchWebsiteConfig"
    /\ \E outcome \in outcomes :
          /\ calls' = [calls EXCEPT ![r] =
                Append(@, OriginCall("GET", "?websiteConfig", FetchStatus(outcome)))]
          /\ IF outcome = "ok"
             THEN /\ ctx' = [ctx EXCEPT ![r].website =
                                 Decode(origin[ctx[r].bucket], ctx[r].website)]
                  /\ pc' = [pc EXCEPT ![r] = "insertWebsite"]
                  /\ UNCHANGED <<result, websites>>
             ELSE /\ result' = [result EXCEPT ![r] =
                                 HttpResult(StatusInternalServerError, "", "")]
                  /\ pc' = [pc EXCEPT ![r] = "done"]
                  /\ websites' = [b \in DOMAIN websites \cup {ctx[r].bucket} |->
                                    IF b = ctx[r].bucket THEN ctx[r].website
                                    ELSE websites[b]]
                  /\ UNCHANGED ctx
    /\ UNCHANGED <<writer, crashed, firebase, origin, req, res, w, call>>

\* initWebsite: GET bucket?websiteConfig and the decoding of its body
FetchWebsiteConfig(r, outcomes) ==
    /\ ~crashed
    /\ pc[r] = "fetchWebsiteConfig"
    /\ \E outcome \in outcomes :
          /\ calls' = [calls EXCEPT ![r] =
                Append(@, OriginCall("GET", "?websiteConfig", FetchStatus(outcome)))]
          /\ IF outcome = "ok"
             THEN /\ ctx' = [ctx EXCEPT ![r].website =
                                 Decode(origin[ctx[r].bucket], ctx[r].website)]
                  /\ pc' = [pc EXCEPT ![r] = "insertWebsite"]
                  /\ UNCHANGED result
             ELSE /\ result' = [result EXCEPT ![r] =
                                 HttpResult(StatusInternalServerError, "", "")]
                  /\ pc' = [pc EXCEPT ![r] = "done"]
                  /\ UNCHANGED ctx
    /\ UNCHANGED <<websites, writer, crashed, firebase, origin, req, res, w, call>>

\* websites[ctx.bucket] = ctx.website
Store(bucket, website) ==
    [b \in DOMAIN websites \cup {bucket} |->
        IF b = bucket THEN website ELSE websites[b]]

\* r enters / leaves the map assignment
Writing(r) == [x \in DOMAIN writer \cup {r} |->
                 IF x = r THEN DOMAIN websites ELSE writer[x]]
Written(r) == [x \in DOMAIN writer \ {r} |-> writer[x]]

\* another assignment was in progress, or completed, during r's assignment
Overlapped(r) ==
    \/ DOMAIN writer # {r}
    \/ DOMAIN websites \ (writer[r] \cup {ctx[r].bucket}) # {}

\* initWebsite: the map assignment begins (the runtime marks the map as
\* being written) ...
InsertWebsiteBegin(r) ==
    /\ ~crashed
    /\ pc[r] = "insertWebsite"
    /\ DOMAIN writer = {}
    /\ writer' = Writing(r)
    /\ pc' = [pc EXCEPT ![r] = "insertWebsiteEnd"]
    /\ UNCHANGED <<websites, crashed, firebase, origin, req, ctx,
                   res, w, result, calls, call>>

\* ... and completes
InsertWebsiteEnd(r) ==
    /\ ~crashed
    /\ pc[r] = "insertWebsiteEnd"
    /\ ~Overlapped(r)
    /\ websites' = Store(ctx[r].bucket, ctx[r].website)
    /\ writer' = Written(r)
    /\ pc' = [pc EXCEPT ![r] = "getCleanURL"]
    /\ UNCHANGED <<crashed, firebase, origin, req, ctx, res, w,
                   result, calls, call>>

\* the handler's use of getCleanURL
GetCleanURL(r) ==
    /\ ~crashed
    /\ pc[r] = "getCleanURL"
    /\ LET location == getCleanURL(req[r].Path, ctx[r].website, Firebase(r))
       IN  IF location # ""
           THEN /\ \E rawQuery \in Queries :
                     result' = [result EXCEPT ![r] =
                        HttpResult(StatusMovedPermanently,
                                   location \o getQuery(rawQuery), "")]
                /\ pc' = [pc EXCEPT ![r] = "done"]
           ELSE /\ pc' = [pc EXCEPT ![r] = "getMetadata"]
                /\ UNCHANGED result
    /\ UNCHANGED <<websites, writer, crashed, firebase, origin, req, ctx, res, w, calls, call>>

(***************************************************************************)
(* func (ctx *HandlerContext) getMetadata() *http.Response                 *)
(***************************************************************************)

\* getMetadata up to the primary HEAD: the initial collapse, the decision
\* to short-circuit, the trailing-slash strip
collapse(object, website) ==
    IF Len(object) <= 1 THEN "/" \o website.MainPageSuffix ELSE object

shortCircuit(object, website) ==
    Len(object) <= 1 \/ object = "/" \o website.NotFoundPage

strip(object, fb) ==
    IF fb.TrailingSlash # "nil" THEN TrimRight(object) ELSE object

GetMetadata(r) ==
    /\ ~crashed
    /\ pc[r] = "getMetadata"
    /\ LET object == collapse(ctx[r].object, ctx[r].website)
       IN  IF shortCircuit(object, ctx[r].website)
           THEN /\ ctx' = [ctx EXCEPT ![r].object = object]
                /\ pc' = [pc EXCEPT ![r] = "rewriteOnly"]
           ELSE /\ ctx' = [ctx EXCEPT ![r].object = strip(object, Firebase(r))]
                /\ pc' = [pc EXCEPT ![r] = "primaryHead"]
    /\ UNCHANGED <<websites, writer, crashed, firebase, origin, req, res, w, result, calls, call>>

\* getRewriteMetadata: the candidate is probed at all
acceptable(rewrite, object) ==
    Len(rewrite) > 1 /\ FirstIsSlash(rewrite) /\ rewrite # object

\* faulty variant: an accepted candidate is not committed as the working object
getRewriteMetadata_noCommit(r, rewrite, next, onNil, heads) ==
    IF acceptable(rewrite, ctx[r].object)
    THEN \E response \in HeadsOf(heads, rewrite) :
            /\ calls' = [calls EXCEPT ![r] =
                  Append(@, OriginCall("HEAD", rewrite, response.StatusCode))]
            /\ UNCHANGED ctx
            /\ IF response.Err
               THEN /\ res' = [res EXCEPT ![r] = BareResponse(StatusInternalServerError)]
                    /\ pc' = [pc EXCEPT ![r] = "resolved"]
               ELSE IF response.StatusCode # StatusNotFound
               THEN /\ res' = [res EXCEPT ![r] = response]
                    /\ pc' = [pc EXCEPT ![r] = "resolved"]
               ELSE /\ res' = [res EXCEPT ![r] = onNil]
                    /\ pc' = [pc EXCEPT ![r] = next]
    ELSE /\ res' = [res EXCEPT ![r] = onNil]
         /\ pc' = [pc EXCEPT ![r] = next]
         /\ UNCHANGED <<ctx, calls>>

\* func (ctx *HandlerContext) getRewriteMetadata(rewrite) *http.Response:
\* a response goes to the handler (pc "resolved"); on nil the caller
\* continues at pc next with the response onNil
getRewriteMetadata(r, rewrite, next, onNil, heads) ==
    IF acceptable(rewrite, ctx[r].object)
    THEN \E response \in HeadsOf(heads, rewrite) :
            /\ calls' = [calls EXCEPT ![r] =
                  Append(@, OriginCall("HEAD", rewrite, response.StatusCode))]
            /\ IF response.Err
               THEN /\ res' = [res EXCEPT ![r] = BareResponse(StatusInternalServerError)]
                    /\ pc' = [pc EXCEPT ![r] = "resolved"]
                    /\ UNCHANGED ctx
               ELSE IF response.StatusCode # StatusNotFound
               THEN /\ ctx' = [ctx EXCEPT ![r].object = rewrite]
                    /\ res' = [res EXCEPT ![r] = response]
                    /\ pc' = [pc EXCEPT ![r] = "resolved"]
               ELSE /\ res' = [res EXCEPT ![r] = onNil]
                    /\ pc' = [pc EXCEPT ![r] = next]
                    /\ UNCHANGED ctx
    ELSE /\ res' = [res EXCEPT ![r] = onNil]
         /\ pc' = [pc EXCEPT ![r] = next]
         /\ UNCHANGED <<ctx, calls>>

\* getMetadata: the working object is "/" or the not-found page
RewriteOnly(r, heads) ==
    /\ ~crashed
    /\ pc[r] = "rewriteOnly"
    /\ getRewriteMetadata(r, processRewrites(Firebase(r), req[r].Path),
                          "resolved", BareResponse(StatusNotFound), heads)
    /\ UNCHANGED <<websites, writer, crashed, firebase, origin, req, w, result, call>>

\* the condition that sends the resolver into the fallback chain
needsFallback(object, response) ==
    \/ response.StatusCode = StatusNotFound
    \/ /\ HasSuffix(object, "/")
       /\ Get(response.Header, "x-goog-stored-content-length") = "0"

\* getMetadata: the primary HEAD
PrimaryHead(r, heads) ==
    /\ ~crashed
    /\ pc[r] = "primaryHead"
    /\ \E response \in HeadsOf(heads, ctx[r].object) :
          /\ calls' = [calls EXCEPT ![r] =
                Append(@, OriginCall("HEAD", ctx[r].object, response.StatusCode))]
          /\ IF response.Err
             THEN /\ res' = [res EXCEPT ![r] = BareResponse(StatusInternalServerError)]
                  /\ pc' = [pc EXCEPT ![r] = "resolved"]
             ELSE /\ res' = [res EXCEPT ![r] = response]
                  /\ pc' = [pc EXCEPT ![r] =
                        IF needsFallback(ctx[r].object, response)
                        THEN "fallbackMainPage" ELSE "resolved"]
    /\ UNCHANGED <<websites, writer, crashed, firebase, origin, req, ctx, w, result, call>>

\* fallback 1: object without trailing slashes + mainPageSuffix
FallbackMainPage(r, heads) ==
    /\ ~crashed
    /\ pc[r] = "fallbackMainPage"
    /\ getRewriteMetadata(r,
          TrimRight(ctx[r].object) \o "/" \o ctx[r].website.MainPageSuffix,
          IF Firebase(r).CleanUrls THEN "fallbackHtml" ELSE "fallbackRewrite",
          res[r], heads)
    /\ UNCHANGED <<websites, writer, crashed, firebase, origin, req, w, result, call>>

\* fallback 2 (cleanUrls only): object without trailing slashes + ".html"
FallbackHtml(r, heads) ==
    /\ ~crashed
    /\ pc[r] = "fallbackHtml"
    /\ getRewriteMetadata(r, TrimRight(ctx[r].object) \o ".html",
                          "fallbackRewrite", res[r], heads)
    /\ UNCHANGED <<websites, writer, crashed, firebase, origin, req, w, result, call>>

\* faulty variant: when the rewrite resolves nothing the resolver starts over
FallbackRewrite_restart(r, heads) ==
    /\ ~crashed
    /\ pc[r] = "fallbackRewrite"
    /\ getRewriteMetadata(r, processRewrites(Firebase(r), req[r].Path),
                          "getMetadata", res[r], heads)
    /\ UNCHANGED <<websites, writer, crashed, firebase, origin, req,
                   w, result, call>>

\* fallback 3: processRewrites(r.URL.Path); on nil the primary response
FallbackRewrite(r, heads) ==
    /\ ~crashed
    /\ pc[r] = "fallbackRewrite"
    /\ getRewriteMetadata(r, processRewrites(Firebase(r), req[r].Path),
                          "resolved", res[r], heads)
    /\ UNCHANGED <<websites, writer, crashed, firebase, origin, req, w, result, call>>

(***************************************************************************)
(* The handler after the resolver: not-found, preconditions, dispatch.     *)
(***************************************************************************)

\* the handler's inspection of the resolver's response
Resolved(r) ==
    /\ ~crashed
    /\ pc[r] = "resolved"
    /\ IF res[r].StatusCode = StatusNotFound
       THEN /\ pc' = [pc EXCEPT ![r] = "sendNotFound"]
            /\ UNCHANGED result
       ELSE IF res[r].StatusCode # StatusOK
       THEN /\ result' = [result EXCEPT ![r] =
                    HttpResult(res[r].StatusCode, "", res[r].Status)]
            /\ pc' = [pc EXCEPT ![r] = "done"]
       ELSE /\ pc' = [pc EXCEPT ![r] = "checkConditions"]
            /\ UNCHANGED result
    /\ UNCHANGED <<websites, writer, crashed, firebase, origin, req, ctx, res, w, calls, call>>

\* the conditional request headers a client may send; a header is a list of
\* field lines, and a line may hold several comma-separated values
IfMatchValues == {<<>>, <<"*">>, <<Etag>>, <<"\"xyz\"">>,
                  <<"\"xyz\"", "*">>, <<"\"xyz\", *">>}
IfNoneMatchValues == {<<>>, <<"*">>, <<Etag>>, <<"\"xyz\"">>}
IfUnmodifiedSinceValues == {<<>>, <<Date1>>, <<Date3>>, <<"yesterday">>}
IfModifiedSinceValues == {<<>>, <<Date1>>, <<Date3>>, <<"yesterday">>}

\* a header map from the value lists of its headers; <<>> is an absent header
MakeHeader(lists) == [k \in {n \in DOMAIN lists : lists[n] # <<>>} |-> lists[k]]

ConditionalHeaders(im, ius, inm, ims) ==
    {MakeHeader([n \in {"If-Match", "If-Unmodified-Since", "If-None-Match",
                        "If-Modified-Since"} |->
                    CASE n = "If-Match" -> a
                      [] n = "If-Unmodified-Since" -> b
                      [] n = "If-None-Match" -> c
                      [] OTHER -> d]) :
        a \in im, b \in ius, c \in inm, d \in ims}

\* the headers the handler copies from the origin's response, then
\* Last-Modified, then ctx.setHeaders()
responseHeaders(r, h) ==
    LET h1 == SetValues(h,  "Cache-Control", Values(res[r].Header, "Cache-Control"))
        h2 == SetValues(h1, "Content-Type", Values(res[r].Header, "Content-Type"))
        h3 == SetValues(h2, "Content-Language", Values(res[r].Header, "Content-Language"))
        h4 == SetValues(h3, "Content-Disposition", Values(res[r].Header, "Content-Disposition"))
        h5 == Set(h4, "Last-Modified", Now)
    IN  ctxSetHeaders(Firebase(r), req[r].Path, h5)

\* faulty variant: the object is delegated by key before the code of the
\* evaluator is looked at
CheckConditions_dispatchFirst(r, headers) ==
    /\ ~crashed
    /\ pc[r] = "checkConditions"
    /\ \E header \in headers :
        LET code == checkConditions(header, Get(res[r].Header, "Etag"),
                                    Get(res[r].Header, "Last-Modified"), TRUE)
            keyed == Set(w[r], "X-AppEngine-BlobKey",
                         "/gs/" \o ctx[r].bucket \o ctx[r].object)
        IN  /\ IF code # 0
               THEN /\ w' = [w EXCEPT ![r] =
                          IF code = StatusNotModified
                          THEN SetValues(keyed, "Cache-Control",
                                         Values(res[r].Header, "Cache-Control"))
                          ELSE keyed]
                    /\ result' = [result EXCEPT ![r] = HttpResult(code, "", "")]
                    /\ pc' = [pc EXCEPT ![r] = "done"]
               ELSE /\ w' = [w EXCEPT ![r] = responseHeaders(r, w[r])]
                    /\ pc' = [pc EXCEPT ![r] =
                          IF Get(res[r].Header, "x-goog-stored-content-encoding") = "identity"
                          THEN "sendBlob" ELSE "sendBlobBody"]
                    /\ UNCHANGED result
    /\ UNCHANGED <<websites, writer, crashed, firebase, origin, req, ctx, res,
                   calls, call>>

\* checkConditions(r, etag, lastModified, true) and the dispatch decision
CheckConditions(r, headers) ==
    /\ ~crashed
    /\ pc[r] = "checkConditions"
    /\ \E header \in headers :
        LET code == checkConditions(header, Get(res[r].Header, "Etag"),
                                    Get(res[r].Header, "Last-Modified"), TRUE)
        IN  /\ IF code # 0
               THEN /\ w' = [w EXCEPT ![r] =
                          IF code = StatusNotModified
                          THEN SetValues(w[r], "Cache-Control",
                                         Values(res[r].Header, "Cache-Control"))
                          ELSE w[r]]
                    /\ result' = [result EXCEPT ![r] = HttpResult(code, "", "")]
                    /\ pc' = [pc EXCEPT ![r] = "done"]
               ELSE /\ w' = [w EXCEPT ![r] = responseHeaders(r, w[r])]
                    /\ pc' = [pc EXCEPT ![r] =
                          IF Get(res[r].Header, "x-goog-stored-content-encoding") = "identity"
                          THEN "sendBlob" ELSE "sendBlobBody"]
                    /\ UNCHANGED result
    /\ UNCHANGED <<websites, writer, crashed, firebase, origin, req, ctx, res,
                   calls, call>>

RangeValues == {<<>>, <<"bytes=0-9">>}
IfRangeValues == {<<>>, <<Etag>>, <<"\"xyz\"">>}

\* faulty variant: the range is forwarded although the origin is mutable
blobRange_forwarded(range, condition, etag, modified, mutable) ==
    IF Len(condition) # 0 /\ condition # etag /\ condition # modified
    THEN "" ELSE range

\* the X-AppEngine-BlobRange value sendBlob computes from Range and If-Range
blobRange(range, condition, etag, modified, mutable) ==
    LET header == IF Len(condition) # 0 /\ condition # etag /\ condition # modified
                  THEN "" ELSE range
    IN  IF mutable THEN "" ELSE header

\* func (ctx *HandlerContext) sendBlob(etag, modified, mutable) HttpResult
SendBlob(r) ==
    /\ ~crashed
    /\ pc[r] = "sendBlob"
    /\ \E keyErr \in BOOLEAN, range \in RangeValues, ifRange \in IfRangeValues :
          IF keyErr
          THEN /\ result' = [result EXCEPT ![r] =
                       HttpResult(StatusInternalServerError, "", "")]
               /\ UNCHANGED w
          ELSE LET header == MakeHeader([n \in {"Range", "If-Range"} |->
                                 IF n = "Range" THEN range ELSE ifRange])
                   h1 == IF Len(Get(header, "Range")) > 0
                         THEN Set(w[r], "X-AppEngine-BlobRange",
                                  blobRange(Get(header, "Range"), Get(header, "If-Range"),
                                            Get(res[r].Header, "Etag"),
                                            Get(res[r].Header, "Last-Modified"), TRUE))
                         ELSE w[r]
               IN  /\ w' = [w EXCEPT ![r] =
                          Set(h1, "X-AppEngine-BlobKey", "/gs/" \o ctx[r].bucket \o ctx[r].object)]
                   /\ result' = [result EXCEPT ![r] = HttpResult(0, "", "")]
    /\ pc' = [pc EXCEPT ![r] = "done"]
    /\ UNCHANGED <<websites, writer, crashed, firebase, origin, req, ctx, res,
                   calls, call>>

\* func (ctx *HandlerContext) sendBlobBody() HttpResult
SendBlobBody(r, gets) ==
    /\ ~crashed
    /\ pc[r] = "sendBlobBody"
    /\ \E response \in gets :
          /\ calls' = [calls EXCEPT ![r] =
                Append(@, OriginCall("GET", ctx[r].object, response.StatusCode))]
          /\ IF response.Err \/ response.StatusCode # StatusOK
             THEN result' = [result EXCEPT ![r] =
                                HttpResult(StatusInternalServerError, "", "")]
             ELSE result' = [result EXCEPT ![r] =
                                [HttpResult(0, "", "") EXCEPT !.Body = ctx[r].object]]
    /\ pc' = [pc EXCEPT ![r] = "done"]
    /\ UNCHANGED <<websites, writer, crashed, firebase, origin, req, ctx, res, w, call>>

\* faulty variant: a not-found page that cannot be fetched gives a plain 404
SendNotFound_plain404(r, gets) ==
    /\ ~crashed
    /\ pc[r] = "sendNotFound"
    /\ LET notFoundPage == "/" \o ctx[r].website.NotFoundPage
       IN  IF Len(notFoundPage) <= 1
           THEN /\ result' = [result EXCEPT ![r] = HttpResult(StatusNotFound, "", "")]
                /\ UNCHANGED <<w, calls>>
           ELSE \E response \in gets :
                   /\ calls' = [calls EXCEPT ![r] =
                         Append(@, OriginCall("GET", notFoundPage, response.StatusCode))]
                   /\ IF response.Err \/ response.StatusCode # StatusOK
                      THEN /\ result' = [result EXCEPT ![r] =
                                   HttpResult(StatusNotFound, "", "")]
                           /\ UNCHANGED w
                      ELSE /\ w' = [w EXCEPT ![r] =
                                  processHeaders(Firebase(r), notFoundPage,
                                      setHeaders(SetValues(w[r], "Content-Type",
                                          Values(response.Header, "Content-Type"))))]
                           /\ result' = [result EXCEPT ![r] =
                                  [HttpResult(0, "", "") EXCEPT
                                     !.WroteHeader = StatusNotFound,
                                     !.Body = notFoundPage]]
    /\ pc' = [pc EXCEPT ![r] = "done"]
    /\ UNCHANGED <<websites, writer, crashed, firebase, origin, req, ctx, res, call>>

\* func (ctx *HandlerContext) sendNotFound() HttpResult
SendNotFound(r, gets) ==
    /\ ~crashed
    /\ pc[r] = "sendNotFound"
    /\ LET notFoundPage == "/" \o ctx[r].website.NotFoundPage
       IN  IF Len(notFoundPage) <= 1
           THEN /\ result' = [result EXCEPT ![r] = HttpResult(StatusNotFound, "", "")]
                /\ UNCHANGED <<w, calls>>
           ELSE \E response \in gets :
                   /\ calls' = [calls EXCEPT ![r] =
                         Append(@, OriginCall("GET", notFoundPage, response.StatusCode))]
                   /\ IF response.Err \/ response.StatusCode # StatusOK
                      THEN /\ result' = [result EXCEPT ![r] =
                                   HttpResult(StatusInternalServerError, "", "")]
                           /\ UNCHANGED w
                      ELSE LET h1 == SetValues(w[r], "Content-Type",
                                               Values(response.Header, "Content-Type"))
                               h2 == SetValues(h1, "Content-Language",
                                               Values(response.Header, "Content-Language"))
                               h3 == SetValues(h2, "Content-Disposition",
                                               Values(response.Header, "Content-Disposition"))
                           IN  /\ w' = [w EXCEPT ![r] =
                                      processHeaders(Firebase(r), notFoundPage, setHeaders(h3))]
                               /\ result' = [result EXCEPT ![r] =
                                      [HttpResult(0, "", "") EXCEPT
                                         !.WroteHeader = StatusNotFound,
                                         !.Body = notFoundPage]]
    /\ pc' = [pc EXCEPT ![r] = "done"]
    /\ UNCHANGED <<websites, writer, crashed, firebase, origin, req, ctx, res, call>>

(***************************************************************************)
(* The unsynchronised map.  websites is a plain Go map that concurrent     *)
(* requests read (makeContext, initWebsite) and write (initWebsite)        *)
(* without a lock.  An access that overlaps an assignment is a data race:  *)
(* the runtime may detect it and terminate the process, a lookup may see   *)
(* or miss the entry, a read may see a partly written value, and an        *)
(* assignment may land on the slot of an entry inserted meanwhile.         *)
(***************************************************************************)

\* the values r is in the middle of assigning to websites[bucket]
BeingWritten(bucket) ==
    {ctx[x].website : x \in {y \in DOMAIN writer : ctx[y].bucket = bucket}}

\* values a racing read of websites[bucket] can see: the old entry, a value
\* being assigned, or a mix of the fields of two of these
RacyValues(bucket) ==
    LET whole == {Lookup(bucket)} \cup BeingWritten(bucket)
    IN  {[MainPageSuffix |-> a.MainPageSuffix, NotFoundPage |-> b.NotFoundPage] :
            a \in whole, b \in whole}

\* makeContext reads websites[bucket] during an assignment
MakeContextRacing(r) ==
    /\ ~crashed
    /\ pc[r] = "makeContext"
    /\ DOMAIN writer # {}
    /\ \E website \in RacyValues(req[r].Host) :
          ctx' = [ctx EXCEPT ![r] = makeContext(r, website)]
    /\ pc' = [pc EXCEPT ![r] = "getRedirect"]
    /\ UNCHANGED <<websites, writer, crashed, firebase, origin, req, res, w,
                   result, calls, call>>

\* initWebsite looks the bucket up during an assignment
InitWebsiteRacing(r) ==
    /\ ~crashed
    /\ pc[r] = "initWebsite"
    /\ DOMAIN writer # {}
    /\ \E ok \in BOOLEAN :
          /\ ok => \/ ctx[r].bucket \in DOMAIN websites
                   \/ BeingWritten(ctx[r].bucket) # {}
          /\ pc' = [pc EXCEPT ![r] = IF ok THEN "getCleanURL"
                                      ELSE "fetchWebsiteConfig"]
    /\ UNCHANGED <<websites, writer, crashed, firebase, origin, req, ctx, res,
                   w, result, calls, call>>

\* an assignment begins while another is in progress
InsertWebsiteBeginRacing(r) ==
    /\ ~crashed
    /\ pc[r] = "insertWebsite"
    /\ DOMAIN writer # {}
    /\ writer' = Writing(r)
    /\ pc' = [pc EXCEPT ![r] = "insertWebsiteEnd"]
    /\ UNCHANGED <<websites, crashed, firebase, origin, req, ctx, res, w,
                   result, calls, call>>

\* websites without the entry of bucket
Without(m, bucket) == [b \in DOMAIN m \ {bucket} |-> m[b]]

\* an overlapped assignment completes: as intended, or on the slot of an
\* entry that another assignment inserted after this one began
InsertWebsiteEndRacing(r) ==
    /\ ~crashed
    /\ pc[r] = "insertWebsiteEnd"
    /\ Overlapped(r)
    /\ \/ websites' = Store(ctx[r].bucket, ctx[r].website)
       \/ \E lost \in DOMAIN websites \ (writer[r] \cup {ctx[r].bucket}) :
             websites' = Without(Store(ctx[r].bucket, ctx[r].website), lost)
    /\ writer' = Written(r)
    /\ pc' = [pc EXCEPT ![r] = "getCleanURL"]
    /\ UNCHANGED <<crashed, firebase, origin, req, ctx, res, w, result, calls,
                   call>>

\* the runtime detects the race: fatal error, the process exits
Fatal(r) ==
    /\ ~crashed
    /\ \/ pc[r] \in {"makeContext", "initWebsite", "insertWebsite"} /\ DOMAIN writer # {}
       \/ pc[r] = "insertWebsiteEnd" /\ Overlapped(r)
    /\ crashed' = TRUE
    /\ UNCHANGED <<websites, writer, firebase, origin, pc, req, ctx, res, w,
                   result, calls, call>>

\* the request context is dropped after dispatch
Drop(r) ==
    /\ ~crashed
    /\ pc[r] = "done"
    /\ pc' = [pc EXCEPT ![r] = "idle"]
    /\ req' = [req EXCEPT ![r] = NoRequest]
    /\ ctx' = [ctx EXCEPT ![r] = NoContext]
    /\ res' = [res EXCEPT ![r] = NoResponse]
    /\ w' = [w EXCEPT ![r] = EmptyHeader]
    /\ result' = [result EXCEPT ![r] = NoResult]
    /\ calls' = [calls EXCEPT ![r] = <<>>]
    /\ UNCHANGED <<websites, writer, crashed, firebase, origin, call>>

(***************************************************************************)
(* Specification Spec: the handler serving one request after another,      *)
(* with every answer of the origin and every rules configuration.          *)
(***************************************************************************)
InitRequests ==
    /\ websites = [b \in {} |-> ZeroWebsite]
    /\ writer = [r \in {} |-> {}]
    /\ crashed = FALSE
    /\ pc = [r \in Reqs |-> "idle"]
    /\ req = [r \in Reqs |-> NoRequest]
    /\ ctx = [r \in Reqs |-> NoContext]
    /\ res = [r \in Reqs |-> NoResponse]
    /\ w = [r \in Reqs |-> EmptyHeader]
    /\ result = [r \in Reqs |-> NoResult]
    /\ calls = [r \in Reqs |-> <<>>]

\* no pure function is under test
NoCall == [fn |-> "", stage |-> 0]

Init ==
    /\ InitRequests
    /\ call = NoCall
    /\ \E fb \in FirebaseConfigurations :
          firebase = [b \in Buckets |-> IF b = "b1" THEN fb ELSE ZeroFirebase]
    /\ \E doc \in WebsiteDocs :
          origin = [b \in Buckets |-> IF b = "b1" THEN doc ELSE DefaultDoc]

Handler(r, heads, gets, outcomes, headers) ==
    \/ CheckMethod(r)
    \/ MakeContext(r)
    \/ GetRedirect(r)
    \/ InitWebsite(r)
    \/ FetchWebsiteConfig(r, outcomes)
    \/ InsertWebsiteBegin(r)
    \/ InsertWebsiteEnd(r)
    \/ GetCleanURL(r)
    \/ GetMetadata(r)
    \/ RewriteOnly(r, heads)
    \/ PrimaryHead(r, heads)
    \/ FallbackMainPage(r, heads)
    \/ FallbackHtml(r, heads)
    \/ FallbackRewrite(r, heads)
    \/ Resolved(r)
    \/ CheckConditions(r, headers)
    \/ SendBlob(r)
    \/ SendBlobBody(r, gets)
    \/ SendNotFound(r, gets)
    \/ Drop(r)

\* the conditional headers of the requests of Spec
RequestHeaders ==
    ConditionalHeaders({<<>>, <<"*">>, <<Etag>>}, {<<>>, <<Date3>>},
                       {<<>>, <<Etag>>}, {<<>>, <<Date3>>})

FetchOutcomes == {"error", "status", "decode", "ok"}

Next ==
    \/ Intake(1, Methods, {"b1"}, Paths)
    \/ Handler(1, HeadResponses, GetResponses, FetchOutcomes, RequestHeaders)

Spec == Init /\ [][Next]_vars

(***************************************************************************)
(* Specification SpecConc: NumReqs requests in flight at once, to two      *)
(* buckets, over the unsynchronised map.                                   *)
(***************************************************************************)
ConcPaths == {"/a", "/404.html"}

ConcHeads ==
    {Response(StatusNotFound, EmptyHeader)}
    \cup {Response(StatusOK, OkHeader([Etag |-> Etag, LastModified |-> Date2],
                                      <<>>, enc, "5")) : enc \in StoredEncodings}

ConcGets == {Response(StatusOK, [k \in {"Content-Type"} |-> <<"text/html">>])}

InitConc ==
    /\ InitRequests
    /\ call = NoCall
    /\ firebase = [b \in Buckets |->
          IF b = "b1" THEN FirebaseConfiguration(TRUE, "nil", CHOOSE x \in RuleSets : x.Rewrites = <<>>)
          ELSE ZeroFirebase]
    /\ origin = [b \in Buckets |->
          IF b = "b1" THEN [MainPageSuffix |-> <<"home.html">>, NotFoundPage |-> <<>>]
          ELSE DefaultDoc]

NextConc ==
    \E r \in Reqs :
        \/ Intake(r, {"GET"}, Buckets, ConcPaths)
        \/ Handler(r, ConcHeads, ConcGets, {"status", "ok"}, {EmptyHeader})
        \/ MakeContextRacing(r)
        \/ InitWebsiteRacing(r)
        \/ InsertWebsiteBeginRacing(r)
        \/ InsertWebsiteEndRacing(r)
        \/ Fatal(r)

SpecConc == InitConc /\ [][NextConc]_vars

(***************************************************************************)
(* Specification SpecClean: getCleanURL on its own.  A client requests a   *)
(* path, and follows the Location of the 301 it gets, if any.              *)
(***************************************************************************)
CleanPaths ==
    Paths \cup {"/index.html", "/home.html", "/a/index.html", "/a.html/",
                "/a.html.html", "/a.htmlindex.html", "/a//", "/a/b.html",
                "/index.html/", "/.html"}

CleanSuffixes == {"", "index.html", "home.html"}

InitPure ==
    /\ InitRequests
    /\ firebase = [b \in Buckets |-> ZeroFirebase]
    /\ origin = [b \in Buckets |-> DefaultDoc]

InitClean ==
    /\ InitPure
    /\ \E p \in CleanPaths, m \in CleanSuffixes, c \in BOOLEAN, t \in TrailingSlashValues :
          call = [fn |-> "getCleanURL", stage |-> 0, path |-> p,
                  website |-> [MainPageSuffix |-> m, NotFoundPage |-> ""],
                  fb |-> FirebaseConfiguration(c, t, CHOOSE x \in RuleSets : x.Rewrites = <<>>),
                  location |-> "", next |-> ""]

\* the request for path: location is getCleanURL's answer
Canonicalize ==
    /\ call.stage = 0
    /\ call' = [call EXCEPT !.stage = 1,
                            !.location = getCleanURL(call.path, call.website, call.fb)]
    /\ UNCHANGED <<websites, writer, crashed, firebase, origin, pc, req, ctx,
                   res, w, result, calls>>

\* the client follows the 301: the request for location
Follow ==
    /\ call.stage = 1
    /\ call.location # ""
    /\ call' = [call EXCEPT !.stage = 2,
                            !.next = getCleanURL(call.location, call.website, call.fb)]
    /\ UNCHANGED <<websites, writer, crashed, firebase, origin, pc, req, ctx,
                   res, w, result, calls>>

NextClean == Canonicalize \/ Follow

SpecClean == InitClean /\ [][NextClean]_vars

(***************************************************************************)
(* Specification SpecCond: checkConditions on its own, over request        *)
(* headers, origin validators and the mutable flag.                        *)
(***************************************************************************)
CondEtags == {Etag, "abc", ""}
CondLastModifieds == {Date2, ""}

InitCond ==
    /\ InitPure
    /\ \E h \in ConditionalHeaders(IfMatchValues, IfUnmodifiedSinceValues,
                                    IfNoneMatchValues, IfModifiedSinceValues),
          e \in CondEtags, l \in CondLastModifieds, m \in BOOLEAN :
          call = [fn |-> "checkConditions", stage |-> 0, header |-> h, etag |-> e,
                  lastModified |-> l, mutable |-> m, code |-> 0]

Evaluate ==
    /\ call.stage = 0
    /\ call' = [call EXCEPT !.stage = 1,
                            !.code = checkConditions(call.header, call.etag,
                                                     call.lastModified, call.mutable)]
    /\ UNCHANGED <<websites, writer, crashed, firebase, origin, pc, req, ctx,
                   res, w, result, calls>>

NextCond == Evaluate

SpecCond == InitCond /\ [][NextCond]_vars

(***************************************************************************)
(* Observations on a request.                                              *)
(***************************************************************************)
IsConfigFetch(c) == c.Object = "?websiteConfig"
IsObjectCall(c) == c.Object # "?websiteConfig"

ObjectCalls(r) == SelectSeq(calls[r], IsObjectCall)
IsHead(c) == c.Verb = "HEAD"
IsObjectGet(c) == c.Verb = "GET" /\ IsObjectCall(c)
NumHeads(r) == Len(SelectSeq(calls[r], IsHead))
NumObjectGets(r) == Len(SelectSeq(calls[r], IsObjectGet))
NumConfigFetches(r) == Len(SelectSeq(calls[r], IsConfigFetch))

\* the status the client sees: the HttpResult's, the one written with
\* WriteHeader, or net/http's implicit 200
FinalStatus(r) ==
    IF result[r].Status # 0 THEN result[r].Status
    ELSE IF result[r].WroteHeader # 0 THEN result[r].WroteHeader
    ELSE StatusOK

Ends200(r) == pc[r] = "done" /\ FinalStatus(r) = StatusOK

\* the six headers of the security baseline and their values
Baseline ==
    [k \in {"Referrer-Policy", "Strict-Transport-Security", "X-Content-Type-Options",
            "X-Download-Options", "X-Frame-Options", "X-XSS-Protection"} |->
        CASE k = "Referrer-Policy" -> "strict-origin-when-cross-origin"
          [] k = "Strict-Transport-Security" -> "max-age=86400"
          [] k = "X-Content-Type-Options" -> "nosniff"
          [] k = "X-Download-Options" -> "noopen"
          [] k = "X-Frame-Options" -> "SAMEORIGIN"
          [] OTHER -> "1; mode=block"]

\* a header rule of the bucket that matches path sets header key
RuleSetsHeader(fb, path, key) ==
    \E i \in 1..Len(fb.Headers) :
        fb.Headers[i].Key = key /\ Matches(fb.Headers[i].Source, path)

(***************************************************************************)
(* C1.  A GET or HEAD request for "/" is resolved to the configured main   *)
(* page: the first object probed at the origin is "/" + mainPageSuffix,    *)
(* for every non-empty mainPageSuffix.                                     *)
(***************************************************************************)
C1_RootProbesMainPage ==
    \A r \in Reqs :
        ( /\ req[r].Path = "/"
          /\ req[r].Method \in {"GET", "HEAD"}
          /\ ctx[r].website.MainPageSuffix # ""
          /\ ObjectCalls(r) # <<>> )
        => ObjectCalls(r)[1].Object = "/" \o ctx[r].website.MainPageSuffix

(***************************************************************************)
(* C2.  Every object path sent to the origin in a HEAD or GET begins with  *)
(* "/" and has length >= 2.                                                *)
(***************************************************************************)
C2_ObjectPathWellFormed ==
    \A r \in Reqs : \A i \in 1..Len(ObjectCalls(r)) :
        /\ Len(ObjectCalls(r)[i].Object) >= 2
        /\ FirstIsSlash(ObjectCalls(r)[i].Object)

(***************************************************************************)
(* C3.  A request that arrives when its bucket's entry is in the cache     *)
(* issues no websiteConfig fetch, whatever the interleaving.               *)
(***************************************************************************)
C3_NoRefetchOnceCached ==
    \A r \in Reqs : req[r].Warm => NumConfigFetches(r) = 0

(***************************************************************************)
(* C4.  An entry of the cache is never changed to a different value and    *)
(* never removed, whatever the interleaving.                               *)
(***************************************************************************)
C4_EntriesAreStable ==
    [][\A b \in DOMAIN websites :
          b \in DOMAIN websites' /\ websites'[b] = websites[b]]_vars

(***************************************************************************)
(* C5.  A request issues at most 4 HEADs, at most 1 GET of an object and   *)
(* at most 1 websiteConfig fetch, and every step of the handler moves the  *)
(* request forward in the handler's sequence of steps (no loop, no         *)
(* recursion), so the request ends.                                        *)
(***************************************************************************)
Position(p) ==
    CASE p = "idle" -> 0
      [] p = "checkMethod" -> 1
      [] p = "makeContext" -> 2
      [] p = "getRedirect" -> 3
      [] p = "initWebsite" -> 4
      [] p = "fetchWebsiteConfig" -> 5
      [] p = "insertWebsite" -> 6
      [] p = "insertWebsiteEnd" -> 7
      [] p = "getCleanURL" -> 8
      [] p = "getMetadata" -> 9
      [] p \in {"rewriteOnly", "primaryHead"} -> 10
      [] p = "fallbackMainPage" -> 11
      [] p = "fallbackHtml" -> 12
      [] p = "fallbackRewrite" -> 13
      [] p = "resolved" -> 14
      [] p \in {"sendNotFound", "checkConditions"} -> 15
      [] p \in {"sendBlob", "sendBlobBody"} -> 16
      [] OTHER -> 17

CallsBounded ==
    \A r \in Reqs :
        /\ NumHeads(r) <= 4
        /\ NumObjectGets(r) <= 1
        /\ NumConfigFetches(r) <= 1

MovesForward ==
    \A r \in Reqs :
        (pc'[r] # pc[r] /\ pc[r] # "done") => Position(pc'[r]) > Position(pc[r])

C5_BoundedOriginCalls == []CallsBounded /\ [][MovesForward]_vars

C5_Witness ==
    \E r \in Reqs :
        /\ pc[r] = "done"
        /\ NumHeads(r) = 4
        /\ NumObjectGets(r) = 1
        /\ NumConfigFetches(r) = 1

(***************************************************************************)
(* C6.  With cleanUrls set, the location of a canonical 301 is itself      *)
(* canonical: requesting it produces no further redirect.                  *)
(***************************************************************************)
C6_CleanUrlIdempotent ==
    (call.fn = "getCleanURL" /\ call.stage = 2 /\ call.fb.CleanUrls)
        => call.next = ""

(***************************************************************************)
(* C7.  With trailingSlash set (force-on or force-off), whatever cleanUrls *)
(* is, the location of a canonical 301 produces no second canonical        *)
(* redirect.                                                               *)
(***************************************************************************)
C7_TrailingSlashIdempotent ==
    (call.fn = "getCleanURL" /\ call.stage = 2 /\ call.fb.TrailingSlash # "nil")
        => call.next = ""

(***************************************************************************)
(* C8.  In checkConditions, when If-Match is present the value of          *)
(* If-Unmodified-Since does not change the result, and when If-None-Match  *)
(* is present the value of If-Modified-Since does not change the result.   *)
(***************************************************************************)
WithHeader(header, key, values) ==
    IF values = <<>> THEN [k \in DOMAIN header \ {key} |-> header[k]]
    ELSE SetValues(header, key, values)

C8_ConditionalPrecedence ==
    (call.fn = "checkConditions" /\ call.stage = 1) =>
        /\ "If-Match" \in DOMAIN call.header =>
              \A v \in IfUnmodifiedSinceValues :
                  checkConditions(WithHeader(call.header, "If-Unmodified-Since", v),
                                  call.etag, call.lastModified, call.mutable) = call.code
        /\ "If-None-Match" \in DOMAIN call.header =>
              \A v \in IfModifiedSinceValues :
                  checkConditions(WithHeader(call.header, "If-Modified-Since", v),
                                  call.etag, call.lastModified, call.mutable) = call.code

\* If-Match: * passes although If-Unmodified-Since alone would give 412, and
\* If-None-Match decides for 304 although If-Modified-Since alone would not
C8_Witness ==
    /\ call.fn = "checkConditions" /\ call.stage = 1
    /\ call.mutable
    /\ Get(call.header, "If-Match") = "*"
    /\ Get(call.header, "If-Unmodified-Since") = Date1
    /\ Get(call.header, "If-None-Match") = Etag
    /\ Get(call.header, "If-Modified-Since") = Date1
    /\ call.code = StatusNotModified

(***************************************************************************)
(* C9.  Every response that ends as a 200 carries the six baseline headers *)
(* with their baseline values and a Last-Modified equal to the server's    *)
(* time of the request, for every outcome of processHeaders.               *)
(***************************************************************************)
C9_BaselineOn200 ==
    \A r \in Reqs : Ends200(r) =>
        /\ \A k \in DOMAIN Baseline : Get(w[r], k) = Baseline[k]
        /\ Get(w[r], "Last-Modified") = Now

\* C9 as amended: the six baseline headers and Last-Modified are carried,
\* and each has its baseline value (Last-Modified: the server's time of the
\* request) unless a matching header rule of the bucket sets that header.
C9_BaselineUnlessRuleSets ==
    \A r \in Reqs : Ends200(r) =>
        /\ \A k \in DOMAIN Baseline :
              /\ Carries(w[r], k)
              /\ ~RuleSetsHeader(Firebase(r), req[r].Path, k) => Get(w[r], k) = Baseline[k]
        /\ Carries(w[r], "Last-Modified")
        /\ ~RuleSetsHeader(Firebase(r), req[r].Path, "Last-Modified")
              => /\ Get(w[r], "Last-Modified") = Now
                 /\ Get(w[r], "Last-Modified") # Get(res[r].Header, "Last-Modified")

C9_Witness ==
    \E r \in Reqs :
        /\ Ends200(r)
        /\ Get(w[r], "X-Frame-Options") = "DENY"
        /\ Get(w[r], "X-Content-Type-Options") = "nosniff"
        /\ Get(w[r], "Last-Modified") = Now

(***************************************************************************)
(* C10.  A request whose method is neither GET nor HEAD is answered 405    *)
(* with Allow: GET, HEAD; every 405 carries that header; such a request    *)
(* issues no origin call and the step that rejects it leaves the cache     *)
(* unchanged.                                                              *)
(***************************************************************************)
MethodRejected ==
    \A r \in Reqs :
        /\ FinalStatus(r) = StatusMethodNotAllowed /\ pc[r] = "done"
              => Get(w[r], "Allow") = "GET, HEAD"
        /\ (pc[r] \notin {"idle", "checkMethod"} /\ req[r].Method \notin {"GET", "HEAD"})
              => /\ pc[r] = "done"
                 /\ result[r].Status = StatusMethodNotAllowed
                 /\ Get(w[r], "Allow") = "GET, HEAD"
                 /\ calls[r] = <<>>

RejectionKeepsCache ==
    \A r \in Reqs :
        (pc[r] = "checkMethod" /\ pc'[r] # pc[r] /\ req[r].Method \notin {"GET", "HEAD"})
            => websites' = websites /\ calls'[r] = <<>>

C10_MethodNotAllowed == []MethodRejected /\ [][RejectionKeepsCache]_vars

C10_Witness ==
    \E r \in Reqs :
        /\ pc[r] = "done"
        /\ req[r].Method = "POST"
        /\ result[r].Status = StatusMethodNotAllowed
        /\ req[r].Host \in DOMAIN websites

(***************************************************************************)
(* C11.  Within one request the steps occur in the order redirect rule,    *)
(* website-config ensure, clean-URL redirect, resolver HEADs, precondition *)
(* evaluation, dispatch: a matching redirect rule returns before any       *)
(* origin call (the websiteConfig fetch included), a clean-URL redirect    *)
(* returns before any HEAD, and the GET of the resolved object and the     *)
(* blob-key header are produced only by the dispatch that follows the      *)
(* resolver and the precondition evaluation.                               *)
(***************************************************************************)
\* the origin calls of a request: the websiteConfig fetch first, then the
\* HEADs, then at most one GET
CallsInOrder(r) ==
    \A i \in 1..Len(calls[r]) :
        /\ IsConfigFetch(calls[r][i]) => i = 1
        /\ IsObjectGet(calls[r][i]) => i = Len(calls[r])

HasBlobKey(r) == Carries(w[r], "X-AppEngine-BlobKey")

\* what a request at a given position has, and has not yet, done
StepsInOrder ==
    \A r \in Reqs :
        /\ CallsInOrder(r)
        /\ Position(pc[r]) <= Position("getRedirect") => calls[r] = <<>>
        /\ Position(pc[r]) <= Position("getMetadata") => ObjectCalls(r) = <<>>
        /\ Position(pc[r]) <= Position("sendBlobBody")
              => NumObjectGets(r) = 0 /\ ~HasBlobKey(r)
        /\ pc[r] \in {"checkConditions", "sendBlob", "sendBlobBody"}
              => res[r].StatusCode = StatusOK /\ NumHeads(r) >= 1
        /\ ( /\ pc[r] = "done"
             /\ HasBlobKey(r) \/ (result[r].Body # "" /\ result[r].WroteHeader = 0) )
              => res[r].StatusCode = StatusOK /\ NumHeads(r) >= 1

\* which step follows which
StepOrder ==
    \A r \in Reqs : pc'[r] # pc[r] =>
        /\ pc[r] = "getRedirect" => calls'[r] = <<>> /\ websites' = websites
        /\ pc'[r] \in {"initWebsite"} => pc[r] = "getRedirect"
        /\ pc'[r] = "getCleanURL"
              => pc[r] \in {"initWebsite", "insertWebsiteEnd"}
        /\ pc[r] = "getCleanURL" => SelectSeq(calls'[r], IsObjectCall) = <<>>
        /\ pc'[r] = "getMetadata" => pc[r] = "getCleanURL"
        /\ pc'[r] \in {"checkConditions", "sendNotFound"} => pc[r] = "resolved"
        /\ pc'[r] \in {"sendBlob", "sendBlobBody"} => pc[r] = "checkConditions"
        /\ ( \/ Len(SelectSeq(calls'[r], IsObjectGet)) > NumObjectGets(r)
             \/ Carries(w'[r], "X-AppEngine-BlobKey") /\ ~HasBlobKey(r) )
              => pc[r] \in {"sendBlob", "sendBlobBody", "sendNotFound"}

LeavesFallbackEmptyHanded(r) ==
    /\ pc[r] = "fallbackRewrite"
    /\ pc'[r] = "resolved"
    /\ ctx'[r].object = ctx[r].object
    /\ res'[r] # BareResponse(StatusInternalServerError)

C12_FallbackEnds404 ==
    [][\A r \in Reqs : LeavesFallbackEmptyHanded(r) =>
          /\ res'[r] = res[r]
          /\ res'[r].StatusCode = StatusNotFound]_vars

(***************************************************************************)
(* C13.  When the primary HEAD returns 404, or the object ends in "/" and  *)
(* the origin reports zero stored length, the resolver probes the          *)
(* candidates in the order (1) object without trailing slashes +           *)
(* mainPageSuffix, (2) object without trailing slashes + ".html", only if  *)
(* cleanUrls is set, (3) processRewrites(requestPath); it skips a          *)
(* candidate that equals the working object, does not start with "/" or    *)
(* has length <= 1, and returns the first answer that is not a 404; on     *)
(* acceptance the working object becomes the candidate, so the object      *)
(* dispatched (blob key or GET) is the object whose HEAD response was      *)
(* returned.                                                               *)
(***************************************************************************)
Heads(r) == SelectSeq(calls[r], IsHead)

InChain(r) == pc[r] \in {"fallbackMainPage", "fallbackHtml", "fallbackRewrite"}

\* the candidate the chain looks at in position p, for the working object
Candidate(r, p) ==
    CASE p = "fallbackMainPage" ->
            TrimRight(ctx[r].object) \o "/" \o ctx[r].website.MainPageSuffix
      [] p = "fallbackHtml" -> TrimRight(ctx[r].object) \o ".html"
      [] OTHER -> processRewrites(Firebase(r), req[r].Path)

\* the position that follows p when p's candidate is not accepted
NextInChain(r, p) ==
    CASE p = "fallbackMainPage" ->
            IF Firebase(r).CleanUrls THEN "fallbackHtml" ELSE "fallbackRewrite"
      [] p = "fallbackHtml" -> "fallbackRewrite"
      [] OTHER -> "resolved"

\* the positions the chain has left behind when it is in position p
Earlier(r, p) ==
    CASE p = "fallbackMainPage" -> <<>>
      [] p = "fallbackHtml" -> <<"fallbackMainPage">>
      [] OTHER -> IF Firebase(r).CleanUrls
                  THEN <<"fallbackMainPage", "fallbackHtml">>
                  ELSE <<"fallbackMainPage">>

Skipped(c, object) == c = object \/ Len(c) <= 1 \/ SubSeq(c, 1, 1) # "/"

\* the candidates of the positions ps that are probed, in order
RECURSIVE ProbedOf(_, _)
ProbedOf(r, ps) ==
    IF ps = <<>> THEN <<>>
    ELSE (IF Skipped(Candidate(r, Head(ps)), ctx[r].object) THEN <<>>
          ELSE <<Candidate(r, Head(ps))>>) \o ProbedOf(r, Tail(ps))

\* in the chain: the first HEAD was the primary one and sent the resolver
\* here, res is its answer, and the HEADs after it are the probed
\* candidates of the earlier positions, each answered 404
ChainSoFar(r) ==
    LET H == Heads(r)
    IN  /\ Len(H) >= 1
        /\ H[1].Object = ctx[r].object
        /\ H[1].Code = res[r].StatusCode
        /\ \/ H[1].Code = StatusNotFound
           \/ /\ HasSuffix(ctx[r].object, "/")
              /\ Get(res[r].Header, "x-goog-stored-content-length") = "0"
        /\ pc[r] = "fallbackHtml" => Firebase(r).CleanUrls
        /\ [i \in 1..(Len(H) - 1) |-> H[i + 1].Object] = ProbedOf(r, Earlier(r, pc[r]))
        /\ \A i \in 2..Len(H) : H[i].Code = StatusNotFound

\* the object of the last HEAD whose answer was not a 404
RECURSIVE Returned(_)
Returned(H) ==
    IF H = <<>> THEN [Object |-> "", Code |-> 0]
    ELSE IF H[Len(H)].Code # StatusNotFound
         THEN [Object |-> H[Len(H)].Object, Code |-> H[Len(H)].Code]
         ELSE Returned(SubSeq(H, 1, Len(H) - 1))

\* what is dispatched is the object whose HEAD answer the resolver returned
DispatchesResolved(r) ==
    /\ (pc[r] \in {"resolved", "checkConditions", "sendBlob", "sendBlobBody"}
            /\ res[r].StatusCode \notin {StatusNotFound, StatusInternalServerError})
          => /\ Returned(Heads(r)).Object = ctx[r].object
             /\ Returned(Heads(r)).Code = res[r].StatusCode
    /\ HasBlobKey(r)
          => /\ Get(w[r], "X-AppEngine-BlobKey")
                   = "/gs/" \o ctx[r].bucket \o Returned(Heads(r)).Object
             /\ Returned(Heads(r)).Code = StatusOK
    /\ (pc[r] = "done" /\ NumObjectGets(r) = 1 /\ res[r].StatusCode = StatusOK)
          => /\ calls[r][Len(calls[r])].Object = Returned(Heads(r)).Object
             /\ Returned(Heads(r)).Code = StatusOK

ResolverState == \A r \in Reqs : (InChain(r) => ChainSoFar(r)) /\ DispatchesResolved(r)

\* one step of the chain
ChainStep(r) ==
    LET c == Candidate(r, pc[r])
        last == calls'[r][Len(calls'[r])]
    IN  IF Skipped(c, ctx[r].object)
        THEN /\ calls'[r] = calls[r]
             /\ ctx'[r] = ctx[r] /\ res'[r] = res[r]
             /\ pc'[r] = NextInChain(r, pc[r])
        ELSE /\ Len(calls'[r]) = Len(calls[r]) + 1
             /\ SubSeq(calls'[r], 1, Len(calls[r])) = calls[r]
             /\ last.Verb = "HEAD" /\ last.Object = c
             /\ IF last.Code = StatusNotFound
                THEN /\ ctx'[r] = ctx[r] /\ res'[r] = res[r]
                     /\ pc'[r] = NextInChain(r, pc[r])
                ELSE IF last.Code = 0
                THEN /\ ctx'[r] = ctx[r]
                     /\ res'[r].StatusCode = StatusInternalServerError
                     /\ pc'[r] = "resolved"
                ELSE /\ ctx'[r].object = c
                     /\ res'[r].StatusCode = last.Code
                     /\ pc'[r] = "resolved"

\* the primary HEAD sends the resolver into the chain exactly on a 404 or a
\* zero-length object whose name ends in "/"
EntersChain(r) ==
    LET last == calls'[r][Len(calls'[r])]
    IN  /\ last.Verb = "HEAD" /\ last.Object = ctx[r].object
        /\ ctx'[r] = ctx[r]
        /\ pc'[r] = "fallbackMainPage"
             <=> \/ last.Code = StatusNotFound
                 \/ /\ last.Code # 0
                    /\ HasSuffix(ctx[r].object, "/")
                    /\ Get(res'[r].Header, "x-goog-stored-content-length") = "0"
        /\ pc'[r] # "fallbackMainPage" => pc'[r] = "resolved"

ResolverStep ==
    \A r \in Reqs : pc'[r] # pc[r] =>
        /\ InChain(r) => ChainStep(r)
        /\ pc[r] = "primaryHead" => EntersChain(r)
        /\ pc'[r] = "fallbackMainPage" => pc[r] = "primaryHead"

C13_FallbackOrder == []ResolverState /\ [][ResolverStep]_vars

\* /a and /a/index.html answered 404, /a.html accepted and delegated by key
C13_Witness ==
    \E r \in Reqs :
        /\ pc[r] = "done"
        /\ [i \in 1..Len(Heads(r)) |-> Heads(r)[i].Object]
              = <<"/a", "/a/index.html", "/a.html">>
        /\ Get(w[r], "X-AppEngine-BlobKey") = "/gs/b1/a.html"

(***************************************************************************)
(* C14.  With the mutable flag set and valid origin validators,            *)
(* checkConditions returns 412 exactly when If-Match is present and none   *)
(* of its values is "*" ("*" matches also among several comma-separated    *)
(* values), or If-Match is absent and If-Unmodified-Since is present and   *)
(* parseable; an If-Match value equal to the ETag never passes.            *)
(***************************************************************************)
\* the values of one field line: its comma-separated elements, without the
\* optional whitespace around them
RECURSIVE Elements(_, _)
Elements(line, current) ==
    IF line = "" THEN {current}
    ELSE LET ch   == SubSeq(line, 1, 1)
             rest == SubSeq(line, 2, Len(line))
         IN  IF ch = "," THEN {current} \cup Elements(rest, "")
             ELSE IF ch = " " THEN Elements(rest, current)
             ELSE Elements(rest, current \o ch)

\* the values of a header field given as a list of field lines
FieldValues(lines) == UNION {Elements(lines[i], "") : i \in 1..Len(lines)}

C14_MutablePreconditions ==
    ( /\ call.fn = "checkConditions" /\ call.stage = 1
      /\ call.mutable
      /\ call.etag = Etag /\ ~ParseTime(call.lastModified).err )
    => ( call.code = StatusPreconditionFailed
           <=> \/ /\ "If-Match" \in DOMAIN call.header
                  /\ "*" \notin FieldValues(call.header["If-Match"])
               \/ /\ "If-Match" \notin DOMAIN call.header
                  /\ ~ParseTime(Get(call.header, "If-Unmodified-Since")).err )

(***************************************************************************)
(* C15.  When the precondition evaluation yields 304, the response carries *)
(* the Cache-Control of the origin's HEAD response and no body is          *)
(* dispatched: no GET of an object is issued and X-AppEngine-BlobKey is    *)
(* not set; the same holds for 412 and for the evaluator's 500.            *)
(***************************************************************************)
SameCacheControl(h, response) ==
    Values(h, "Cache-Control") = Values(response.Header, "Cache-Control")

\* a request answered 304 or 412 (codes only the evaluator produces)
NothingDispatched ==
    \A r \in Reqs :
        (pc[r] = "done" /\ result[r].Status \in {StatusNotModified, StatusPreconditionFailed})
        => /\ NumObjectGets(r) = 0
           /\ ~HasBlobKey(r)
           /\ result[r].Body = "" /\ result[r].WroteHeader = 0
           /\ res[r].StatusCode = StatusOK
           /\ result[r].Status = StatusNotModified => SameCacheControl(w[r], res[r])

\* the step that evaluates the preconditions: it returns 304, 412 or 500
\* without a call and without a blob key, or goes on to the dispatch
EvaluationStep ==
    \A r \in Reqs : (pc[r] = "checkConditions" /\ pc'[r] # pc[r]) =>
        IF pc'[r] = "done"
        THEN /\ result'[r].Status \in {StatusNotModified, StatusPreconditionFailed,
                                       StatusInternalServerError}
             /\ result'[r].Status = StatusInternalServerError
                   <=> \/ SubSeq(Get(res[r].Header, "Etag"), 1, 1) # "\""
                       \/ ParseTime(Get(res[r].Header, "Last-Modified")).err
             /\ calls'[r] = calls[r]
             /\ ~Carries(w'[r], "X-AppEngine-BlobKey")
             /\ result'[r].Body = "" /\ result'[r].WroteHeader = 0
             /\ result'[r].Status = StatusNotModified => SameCacheControl(w'[r], res[r])
        ELSE pc'[r] \in {"sendBlob", "sendBlobBody"}

C15_NoDispatchOnShortCircuit == []NothingDispatched /\ [][EvaluationStep]_vars

\* a 304 that carries the origin's Cache-Control
C15_Witness ==
    \E r \in Reqs :
        /\ pc[r] = "done"
        /\ result[r].Status = StatusNotModified
        /\ Get(res[r].Header, "Cache-Control") = "max-age=60"
        /\ Get(w[r], "Cache-Control") = "max-age=60"
        /\ NumObjectGets(r) = 0

(***************************************************************************)
(* C16.  The dispatch of a resolved 200 object takes exactly one of two    *)
(* paths: if the origin's HEAD reports x-goog-stored-content-encoding:     *)
(* identity, no GET of the object is issued and X-AppEngine-BlobKey is     *)
(* set; otherwise exactly one GET of the object is issued, no blob key is  *)
(* set, and a GET answered other than 200 gives 500.  A request Range is   *)
(* never forwarded: X-AppEngine-BlobRange is never set to a non-empty      *)
(* range, whatever If-Range says.                                          *)
(***************************************************************************)
Identity(r) == Get(res[r].Header, "x-goog-stored-content-encoding") = "identity"

\* the path is chosen by the stored encoding, and no response names a range
DispatchState ==
    \A r \in Reqs :
        /\ pc[r] = "sendBlob" => res[r].StatusCode = StatusOK /\ Identity(r)
        /\ pc[r] = "sendBlobBody" => res[r].StatusCode = StatusOK /\ ~Identity(r)
        /\ Get(w[r], "X-AppEngine-BlobRange") = ""
        /\ ~(HasBlobKey(r) /\ NumObjectGets(r) >= 1)

\* the stream path: one GET of the working object, no blob key
StreamStep(r) ==
    LET last == calls'[r][Len(calls'[r])]
    IN  /\ Len(calls'[r]) = Len(calls[r]) + 1
        /\ SubSeq(calls'[r], 1, Len(calls[r])) = calls[r]
        /\ last.Verb = "GET" /\ last.Object = ctx[r].object
        /\ Len(SelectSeq(calls'[r], IsObjectGet)) = 1
        /\ ~Carries(w'[r], "X-AppEngine-BlobKey")
        /\ IF last.Code # StatusOK
           THEN result'[r].Status = StatusInternalServerError /\ result'[r].Body = ""
           ELSE result'[r].Status = 0 /\ result'[r].Body = ctx[r].object

\* the delegation path: no call, the key of the working object
KeyStep(r) ==
    /\ calls'[r] = calls[r]
    /\ Get(w'[r], "X-AppEngine-BlobKey") = "/gs/" \o ctx[r].bucket \o ctx[r].object
    /\ result'[r].Status = 0 /\ result'[r].Body = ""

\* the delegation path when the runtime gives no key: 500, no key, no call
KeyFailedStep(r) ==
    /\ calls'[r] = calls[r]
    /\ ~Carries(w'[r], "X-AppEngine-BlobKey")
    /\ w'[r] = w[r]
    /\ result'[r].Status = StatusInternalServerError /\ result'[r].Body = ""

C16_TwoDispatchPaths ==
    /\ []DispatchState
    /\ [][\A r \in Reqs : pc'[r] # pc[r] =>
             /\ pc[r] = "sendBlob" => KeyStep(r)
             /\ pc[r] = "sendBlobBody" => StreamStep(r)]_vars

\* C16 as amended: on the identity path X-AppEngine-BlobKey is set unless
\* the runtime fails to give a key for the object, and then the request is
\* answered 500 with no blob key and no GET.
C16_TwoDispatchPathsOrKeyFailure ==
    /\ []DispatchState
    /\ [][\A r \in Reqs : pc'[r] # pc[r] =>
             /\ pc[r] = "sendBlob" => KeyStep(r) \/ KeyFailedStep(r)
             /\ pc[r] = "sendBlobBody" => StreamStep(r)]_vars

\* a delegated object of a request that sent Range: the range is suppressed
C16_Witness ==
    \E r \in Reqs :
        /\ pc[r] = "done"
        /\ HasBlobKey(r)
        /\ Carries(w[r], "X-AppEngine-BlobRange")
        /\ Get(w[r], "X-AppEngine-BlobRange") = ""
        /\ NumObjectGets(r) = 0

(***************************************************************************)
(* C17.  When the resolver's result is 404: if notFoundPage is empty the   *)
(* reply is 404 with no body and no GET; if it is not empty exactly one    *)
(* GET of "/" + notFoundPage is issued, a transport error or an answer     *)
(* other than 200 gives 500, and otherwise the reply is 404 with the body  *)
(* of that object, its Content-Type and the security-header baseline (a    *)
(* baseline header has its baseline value unless a header rule that        *)
(* matches the not-found page sets it).                                    *)
(***************************************************************************)
CarriesBaseline(h, fb, path) ==
    \A k \in DOMAIN Baseline :
        /\ Carries(h, k)
        /\ ~RuleSetsHeader(fb, path, k) => Get(h, k) = Baseline[k]

NotFoundStep(r) ==
    LET notFoundPage == "/" \o ctx[r].website.NotFoundPage
        last == calls'[r][Len(calls'[r])]
    IN  /\ pc'[r] = "done"
        /\ IF ctx[r].website.NotFoundPage = ""
           THEN /\ calls'[r] = calls[r]
                /\ result'[r] = HttpResult(StatusNotFound, "", "")
                /\ w'[r] = w[r]
           ELSE /\ Len(calls'[r]) = Len(calls[r]) + 1
                /\ SubSeq(calls'[r], 1, Len(calls[r])) = calls[r]
                /\ last.Verb = "GET" /\ last.Object = notFoundPage
                /\ Len(SelectSeq(calls'[r], IsObjectGet)) = 1
                /\ IF last.Code # StatusOK
                   THEN /\ result'[r] = HttpResult(StatusInternalServerError, "", "")
                        /\ w'[r] = w[r]
                   ELSE /\ result'[r].Status = 0
                        /\ result'[r].WroteHeader = StatusNotFound
                        /\ result'[r].Body = notFoundPage
                        /\ Get(w'[r], "Content-Type") = "text/html"
                        /\ CarriesBaseline(w'[r], Firebase(r), notFoundPage)

\* the not-found path is taken exactly on a resolver result of 404
NotFoundPath ==
    \A r \in Reqs :
        /\ pc[r] = "sendNotFound" => res[r].StatusCode = StatusNotFound
        /\ (pc[r] = "done" /\ result[r].WroteHeader = StatusNotFound)
              => /\ res[r].StatusCode = StatusNotFound
                 /\ FinalStatus(r) = StatusNotFound
                 /\ ~HasBlobKey(r)

FetchStep(r) ==
    LET last == calls'[r][Len(calls'[r])]
    IN  /\ calls'[r] = <<last>>
        /\ IsConfigFetch(last)
        /\ last.Code # StatusOK => pc'[r] = "done"
        /\ pc'[r] = "done"
              => /\ result'[r] = HttpResult(StatusInternalServerError, "", "")
                 /\ websites' = websites
                 /\ ctx[r].bucket \notin DOMAIN websites'
                 /\ w'[r] = w[r]
        /\ pc'[r] # "done" => pc'[r] = "insertWebsite"

FetchSteps ==
    \A r \in Reqs : pc'[r] # pc[r] =>
        /\ pc[r] = "fetchWebsiteConfig" => FetchStep(r)
        /\ (pc[r] = "initWebsite" /\ ctx[r].bucket \notin DOMAIN websites)
              => pc'[r] = "fetchWebsiteConfig"

\* a request whose fetch failed made no other call; a request that arrived
\* without an entry for its bucket does not get past the website-config step
\* without a fetch that succeeded
FetchState ==
    \A r \in Reqs :
        /\ (calls[r] # <<>> /\ IsConfigFetch(calls[r][1]) /\ calls[r][1].Code # StatusOK)
              => /\ pc[r] = "done"
                 /\ result[r].Status = StatusInternalServerError
                 /\ Len(calls[r]) = 1
                 /\ req[r].Host \notin DOMAIN websites
        /\ (~req[r].Warm /\ Position(pc[r]) >= Position("getCleanURL")
                         /\ Position(pc[r]) <= Position("sendBlobBody"))
              => /\ NumConfigFetches(r) = 1
                 /\ calls[r][1].Code = StatusOK
                 /\ req[r].Host \in DOMAIN websites

C18_FetchFailure == []FetchState /\ [][FetchSteps]_vars

\* a websiteConfig answered 200 whose body does not decode
C18_Witness ==
    \E r \in Reqs :
        /\ pc[r] = "done"
        /\ calls[r] = <<OriginCall("GET", "?websiteConfig", StatusOK)>>
        /\ result[r].Status = StatusInternalServerError
        /\ req[r].Host \notin DOMAIN websites

(***************************************************************************)
(* C19.  If after the initial collapse the working object is "/" (empty    *)
(* main-page suffix) or equals "/" + notFoundPage, the resolver issues no  *)
(* primary HEAD for it: it probes only processRewrites(requestPath), and   *)
(* if that yields no accepted object the result is 404; hence a request    *)
(* that names the not-found page directly is not answered 200 with that    *)
(* page unless a rewrite resolves to another object.                       *)
(***************************************************************************)
\* the working object after the initial collapse
Collapsed(r) ==
    IF Len(ctx[r].object) <= 1 THEN "/" \o ctx[r].website.MainPageSuffix
    ELSE ctx[r].object

\* the resolver's first step decides for the rewrite-only probe exactly when
\* the collapsed object is "/" or the not-found page
ShortCircuitStep(r) ==
    pc'[r] = (IF Collapsed(r) = "/" \/ Collapsed(r) = "/" \o ctx[r].website.NotFoundPage
              THEN "rewriteOnly" ELSE "primaryHead")

\* the rewrite-only probe: no HEAD of the working object, at most one HEAD,
\* of processRewrites(requestPath), and 404 when nothing is accepted
RewriteOnlyStep(r) ==
    LET c == processRewrites(Firebase(r), req[r].Path)
        last == calls'[r][Len(calls'[r])]
    IN  /\ pc'[r] = "resolved"
        /\ \/ calls'[r] = calls[r]
           \/ /\ calls'[r] = Append(calls[r], last)
              /\ last.Verb = "HEAD" /\ last.Object = c /\ c # ctx[r].object
        /\ ctx'[r].object = ctx[r].object
              => res'[r] \in {BareResponse(StatusNotFound),
                              BareResponse(StatusInternalServerError)}
        /\ ctx'[r].object # ctx[r].object
              => ctx'[r].object = c /\ res'[r].StatusCode = last.Code

\* a request for the not-found page itself that ends as a 200 was resolved
\* by a rewrite to another object
NamesNotFoundPage(r) ==
    /\ ctx[r].website.NotFoundPage # ""
    /\ req[r].Path = "/" \o ctx[r].website.NotFoundPage

NotFoundPageNot200 ==
    \A r \in Reqs : (Ends200(r) /\ NamesNotFoundPage(r)) =>
        /\ ctx[r].object = processRewrites(Firebase(r), req[r].Path)
        /\ ctx[r].object # "/" \o ctx[r].website.NotFoundPage
        /\ NumHeads(r) = 1

C19_ShortCircuit ==
    /\ []NotFoundPageNot200
    /\ [][\A r \in Reqs : pc'[r] # pc[r] =>
             /\ pc[r] = "getMetadata" => ShortCircuitStep(r)
             /\ pc[r] = "rewriteOnly" => RewriteOnlyStep(r)]_vars

(***************************************************************************)
(* C20.  For every interleaving of concurrent requests, a request that has *)
(* passed the website-config step resolves and dispatches with a website   *)
(* configuration equal to the cache entry of its bucket; a request whose   *)
(* context was created before another request inserted the entry does not  *)
(* continue with an empty configuration.                                   *)
(***************************************************************************)
PastWebsiteConfig(r) ==
    /\ Position(pc[r]) >= Position("getCleanURL")
    /\ Position(pc[r]) <= Position("sendBlobBody")

C20_ContextMatchesCache ==
    \A r \in Reqs :
        (PastWebsiteConfig(r) /\ ctx[r].bucket \in DOMAIN websites)
            => ctx[r].website = websites[ctx[r].bucket]

====
